---- MODULE Spec2Model ----
(***************************************************************************)
(* Model of ntfy-rs (src/src/lib.rs): Client, Message, MessageBuilder and  *)
(* the async function ntfy(), together with the HTTP collaborator          *)
(* (reqwest) seen as an environment that answers each request handed to    *)
(* send() with a response or with an error.                                *)
(*                                                                         *)
(* Strings are sequences of one-character strings.  Option<T> is a         *)
(* sequence of length at most one: None is <<>>, Some(x) is <<x>>.         *)
(***************************************************************************)
EXTENDS Naturals, Sequences, FiniteSets

\* ------------------------------------------------------------------ bounds
\* Total number of characters of the three components given to Client::new.
MaxLen == 2
\* Number of setter calls (title / tags) made on one MessageBuilder.
MaxSetters == 2
\* Number of ntfy() calls in flight in the concurrent specification.
NCalls == 2

\* ------------------------------------------------------------- input sets
Chars == {"a", "/", "_"}
Strs == UNION {[1..n -> Chars] : n \in 0..MaxLen}
\* Message, title and tags texts handed to the builder.
Texts == {<<>>, <<"a">>}
\* Status codes and transport failures the collaborator may answer with.
Statuses == {200, 404, 500}
ErrKinds == {"connect", "tls"}

\* ---------------------------------------------------------------- values
None == <<>>
Some(x) == <<x>>

\* &str -> String (to_string / into): a fresh copy of the characters.
ToString(s) == SubSeq(s, 1, Len(s))

Ok(x) == <<"Ok", x>>
Err(e) == <<"Err", e>>
\* From<reqwest::Error> for Box<dyn Error>, applied by the ? operator.
Box(e) == [boxed |-> e]

VARIABLES
    clients,   \* client name -> Option<Client>, the Clients the caller owns
    cargs,     \* client name -> the arguments its Client::new was given
    builder,   \* call -> Option<MessageBuilder>
    arg,       \* call -> Option<text>, the argument of Message::builder
    log,       \* call -> the setter calls made on the builder, in order
    msg,       \* call -> Option<Message>, the value build() returned
    pc,        \* call -> "start", "building", "built", "awaiting", "done"
    cli,       \* call -> Option<client name>, the &Client given to ntfy
    fut,       \* call -> <<>> or <<h, i>>: request i of transport client h
    wire,      \* transport client -> the requests handed to send(), in order
    outcome,   \* transport client -> the outcomes of its requests, in order
    result     \* call -> <<>> or the Result ntfy returned

vars == <<clients, cargs, builder, arg, log, msg, pc, cli, fut, wire, outcome, result>>

Calls == DOMAIN pc
ClientNames == DOMAIN clients

\* ------------------------------------------------------- Client (l. 14-23)
ClientNew(server, topic, uuid) ==
    [server |-> ToString(server), topic |-> ToString(topic), uuid |-> ToString(uuid)]

\* ----------------------------------------------- MessageBuilder (l. 67-100)
MessageBuilderNew(message) ==
    [title |-> None, message |-> ToString(message), tags |-> None]

MessageBuilderTitleKeepFirst(b, title) ==
    IF b.title = None
    THEN [title |-> Some(ToString(title)), message |-> b.message, tags |-> b.tags]
    ELSE b

MessageBuilderTitle(b, title) ==
    [title |-> Some(ToString(title)), message |-> b.message, tags |-> b.tags]

MessageBuilderTagsResetsTitle(b, tags) ==
    [title |-> None, message |-> b.message, tags |-> Some(ToString(tags))]

MessageBuilderTags(b, tags) ==
    [title |-> b.title, message |-> b.message, tags |-> Some(ToString(tags))]

MessageBuilderBuild(b) ==
    [title |-> b.title, message |-> b.message, tags |-> b.tags]

\* The builder a caller holds after Message::builder(a) and the setter calls l.
RECURSIVE RunBuilder(_, _)
RunBuilder(a, l) ==
    IF l = <<>>
    THEN MessageBuilderNew(a)
    ELSE LET b == RunBuilder(a, SubSeq(l, 1, Len(l) - 1))
             last == l[Len(l)]
         IN  IF last[1] = "title"
             THEN MessageBuilderTitle(b, last[2])
             ELSE MessageBuilderTags(b, last[2])

\* --------------------------------------------------------- ntfy (l. 103-127)
\* format!("{}/{}_{}", cli.server, cli.topic, cli.uuid)
FormatUrlTrimSlash(server, topic, uuid) ==
    LET s == IF Len(server) > 0 /\ server[Len(server)] = "/"
             THEN SubSeq(server, 1, Len(server) - 1)
             ELSE server
    IN  s \o <<"/">> \o topic \o <<"_">> \o uuid

FormatUrl(server, topic, uuid) ==
    server \o <<"/">> \o topic \o <<"_">> \o uuid

\* match opt { Some(s) => s, None => "".into() }
UnwrapOrEmpty(opt) ==
    IF opt = None THEN <<>> ELSE opt[1]

\* client.post(url).header("Title", title).header("Tags", tags).body(message)
BuildRequestSkipEmpty(url, title, tags, body) ==
    [method |-> "POST",
     url |-> url,
     headers |-> (IF title = <<>> THEN <<>> ELSE << <<"Title", title>> >>)
                 \o (IF tags = <<>> THEN <<>> ELSE << <<"Tags", tags>> >>),
     body |-> body]

BuildRequestBodyFromTitle(url, title, tags, body) ==
    [method |-> "POST",
     url |-> url,
     headers |-> << <<"Title", title>>, <<"Tags", tags>> >>,
     body |-> title]

BuildRequest(url, title, tags, body) ==
    [method |-> "POST",
     url |-> url,
     headers |-> << <<"Title", title>>, <<"Tags", tags>> >>,
     body |-> body]

\* The request ntfy(cl, m) hands to send().
NtfyRequest(cl, m) ==
    BuildRequest(FormatUrl(cl.server, cl.topic, cl.uuid),
                 UnwrapOrEmpty(m.title), UnwrapOrEmpty(m.tags), m.message)

\* let res = <future>.await?; Ok(res)
TryReturnGenericError(out) ==
    IF out[1] = "Err" THEN Err(Box([kind |-> "failed", for |-> <<0, 0>>])) ELSE Ok(out[2])

TryReturnErrorForStatus(out) ==
    IF out[1] = "Err"
    THEN Err(Box(out[2]))
    ELSE IF out[2].status >= 400
         THEN Err(Box([kind |-> "status", for |-> out[2].for]))
         ELSE Ok(out[2])

TryReturn(out) ==
    IF out[1] = "Err" THEN Err(Box(out[2])) ELSE Ok(out[2])

\* reqwest::Client::new(): a transport client no other call holds.
NewTransportShared(w) == 1

NewTransport(w) == Len(w) + 1

\* ------------------------------------------------------------------ state
\* The sequential program: nothing constructed yet, one call.
Init ==
    /\ clients = [k \in {"c1"} |-> None]
    /\ cargs = [k \in {"c1"} |-> None]
    /\ builder = [c \in 1..1 |-> None]
    /\ arg = [c \in 1..1 |-> None]
    /\ log = [c \in 1..1 |-> <<>>]
    /\ msg = [c \in 1..1 |-> None]
    /\ pc = [c \in 1..1 |-> "start"]
    /\ cli = [c \in 1..1 |-> None]
    /\ fut = [c \in 1..1 |-> <<>>]
    /\ wire = <<>>
    /\ outcome = <<>>
    /\ result = [c \in 1..1 |-> <<>>]

\* The Clients and the builder runs of the concurrent program.
ConcArgs == [c1 |-> <<<<"a">>, <<"a">>, <<>>>>, c2 |-> <<<<"/">>, <<>>, <<"_">>>>]
ConcClients ==
    [k \in {"c1", "c2"} |-> Some(ClientNew(ConcArgs[k][1], ConcArgs[k][2], ConcArgs[k][3]))]
ConcBuilds ==
    { <<<<"a">>, <<>>>>,
      <<<<>>, << <<"title", <<"a">>>>, <<"tags", <<"a">>>> >> >> }

\* The concurrent program: two Clients constructed, every call's Message built.
InitConc ==
    /\ clients = ConcClients
    /\ cargs = [k \in {"c1", "c2"} |-> Some(ConcArgs[k])]
    /\ \E runs \in [1..NCalls -> ConcBuilds] :
          /\ arg = [c \in 1..NCalls |-> Some(runs[c][1])]
          /\ log = [c \in 1..NCalls |-> runs[c][2]]
          /\ msg = [c \in 1..NCalls |->
                       Some(MessageBuilderBuild(RunBuilder(runs[c][1], runs[c][2])))]
    /\ builder = [c \in 1..NCalls |-> None]
    /\ pc = [c \in 1..NCalls |-> "built"]
    /\ cli = [c \in 1..NCalls |-> None]
    /\ fut = [c \in 1..NCalls |-> <<>>]
    /\ wire = <<>>
    /\ outcome = <<>>
    /\ result = [c \in 1..NCalls |-> <<>>]

\* ---------------------------------------------------------------- actions
\* Client::new(server, topic, uuid)                              (l. 16-22)
NewClient(k) ==
    /\ clients[k] = None
    /\ \E server \in Strs, topic \in Strs, uuid \in Strs :
          /\ Len(server) + Len(topic) + Len(uuid) <= MaxLen
          /\ clients' = [clients EXCEPT ![k] = Some(ClientNew(server, topic, uuid))]
          /\ cargs' = [cargs EXCEPT ![k] = Some(<<server, topic, uuid>>)]
    /\ UNCHANGED <<builder, arg, log, msg, pc, cli, fut, wire, outcome, result>>

\* Message::builder(message)                              (l. 45-47, 68-74)
Builder(c) ==
    /\ pc[c] = "start"
    /\ \E message \in Texts :
          /\ builder' = [builder EXCEPT ![c] = Some(MessageBuilderNew(message))]
          /\ arg' = [arg EXCEPT ![c] = Some(message)]
    /\ pc' = [pc EXCEPT ![c] = "building"]
    /\ UNCHANGED <<clients, cargs, log, msg, cli, fut, wire, outcome, result>>

\* builder.title(title)                                          (l. 77-82)
Title(c) ==
    /\ pc[c] = "building"
    /\ Len(log[c]) < MaxSetters
    /\ \E title \in Texts :
          /\ builder' = [builder EXCEPT ![c] = Some(MessageBuilderTitle(builder[c][1], title))]
          /\ log' = [log EXCEPT ![c] = Append(@, <<"title", title>>)]
    /\ UNCHANGED <<clients, cargs, arg, msg, pc, cli, fut, wire, outcome, result>>

\* builder.tags(tags)                                            (l. 85-90)
Tags(c) ==
    /\ pc[c] = "building"
    /\ Len(log[c]) < MaxSetters
    /\ \E tags \in Texts :
          /\ builder' = [builder EXCEPT ![c] = Some(MessageBuilderTags(builder[c][1], tags))]
          /\ log' = [log EXCEPT ![c] = Append(@, <<"tags", tags>>)]
    /\ UNCHANGED <<clients, cargs, arg, msg, pc, cli, fut, wire, outcome, result>>

\* builder.build(): the builder is consumed                      (l. 93-99)
Build(c) ==
    /\ pc[c] = "building"
    /\ msg' = [msg EXCEPT ![c] = Some(MessageBuilderBuild(builder[c][1]))]
    /\ builder' = [builder EXCEPT ![c] = None]
    /\ pc' = [pc EXCEPT ![c] = "built"]
    /\ UNCHANGED <<clients, cargs, arg, log, cli, fut, wire, outcome, result>>

\* ntfy(&clients[k], msg) up to its one suspension point: the request is
\* assembled and handed to send() of a new transport client    (l. 107-123)
NtfySend(c, k) ==
    /\ pc[c] = "built"
    /\ clients[k] # None
    /\ LET h == NewTransport(wire)
           w == IF h > Len(wire) THEN Append(wire, <<>>) ELSE wire
           o == IF h > Len(outcome) THEN Append(outcome, <<>>) ELSE outcome
       IN  /\ wire' = [w EXCEPT ![h] = Append(@, NtfyRequest(clients[k][1], msg[c][1]))]
           /\ outcome' = o
           /\ fut' = [fut EXCEPT ![c] = <<h, Len(w[h]) + 1>>]
    /\ cli' = [cli EXCEPT ![c] = Some(k)]
    /\ pc' = [pc EXCEPT ![c] = "awaiting"]
    /\ UNCHANGED <<clients, cargs, builder, arg, log, msg, result>>

\* The collaborator delivers a response to the oldest unanswered request of h.
Respond(h) ==
    /\ Len(outcome[h]) < Len(wire[h])
    /\ \E status \in Statuses :
          outcome' = [outcome EXCEPT ![h] =
              Append(@, Ok([status |-> status, for |-> <<h, Len(outcome[h]) + 1>>]))]
    /\ UNCHANGED <<clients, cargs, builder, arg, log, msg, pc, cli, fut, wire, result>>

\* The collaborator fails to complete the oldest unanswered request of h.
Fail(h) ==
    /\ Len(outcome[h]) < Len(wire[h])
    /\ \E kind \in ErrKinds :
          outcome' = [outcome EXCEPT ![h] =
              Append(@, Err([kind |-> kind, for |-> <<h, Len(outcome[h]) + 1>>]))]
    /\ UNCHANGED <<clients, cargs, builder, arg, log, msg, pc, cli, fut, wire, result>>

\* A variant that sends the request again after a transport failure.
NtfyReturnRetry(c) ==
    /\ pc[c] = "awaiting"
    /\ Len(outcome[fut[c][1]]) >= fut[c][2]
    /\ LET h == fut[c][1]
           out == outcome[h][fut[c][2]]
       IN  IF out[1] = "Err" /\ Len(wire[h]) < 2
           THEN /\ wire' = [wire EXCEPT ![h] = Append(@, wire[h][fut[c][2]])]
                /\ fut' = [fut EXCEPT ![c] = <<h, Len(wire[h]) + 1>>]
                /\ UNCHANGED <<pc, result>>
           ELSE /\ result' = [result EXCEPT ![c] = TryReturn(out)]
                /\ pc' = [pc EXCEPT ![c] = "done"]
                /\ UNCHANGED <<wire, fut>>
    /\ UNCHANGED <<clients, cargs, builder, arg, log, msg, cli, outcome>>

\* ntfy() resumes with the outcome of its request and returns  (l. 124-126)
NtfyReturn(c) ==
    /\ pc[c] = "awaiting"
    /\ Len(outcome[fut[c][1]]) >= fut[c][2]
    /\ result' = [result EXCEPT ![c] = TryReturn(outcome[fut[c][1]][fut[c][2]])]
    /\ pc' = [pc EXCEPT ![c] = "done"]
    /\ UNCHANGED <<clients, cargs, builder, arg, log, msg, cli, fut, wire, outcome>>

Next ==
    \/ \E k \in ClientNames : NewClient(k)
    \/ \E c \in Calls : Builder(c)
    \/ \E c \in Calls : Title(c)
    \/ \E c \in Calls : Tags(c)
    \/ \E c \in Calls : Build(c)
    \/ \E c \in Calls, k \in ClientNames : NtfySend(c, k)
    \/ \E h \in DOMAIN wire : Respond(h)
    \/ \E h \in DOMAIN wire : Fail(h)
    \/ \E c \in Calls : NtfyReturn(c)

Spec == Init /\ [][Next]_vars

NextConc ==
    \/ \E c \in Calls, k \in ClientNames : NtfySend(c, k)
    \/ \E h \in DOMAIN wire : Respond(h)
    \/ \E h \in DOMAIN wire : Fail(h)
    \/ \E c \in Calls : NtfyReturn(c)

SpecConc == InitConc /\ [][NextConc]_vars

\* ------------------------------------------------------------ properties
\* The call has handed its request to send().
Sent(c) == pc[c] \in {"awaiting", "done"}
\* The request of call c, and the outcome the collaborator gave it.
Req(c) == wire[fut[c][1]][fut[c][2]]
Out(c) == outcome[fut[c][1]][fut[c][2]]
\* The arguments of Client::new of the Client call c was given.
ArgsOf(c) == cargs[cli[c][1]][1]
\* The values of the headers of req named name, in order.
HeaderValues(req, name) ==
    LET idx == {i \in DOMAIN req.headers : req.headers[i][1] = name}
    IN  {req.headers[i][2] : i \in idx}
HeaderCount(req, name) ==
    Cardinality({i \in DOMAIN req.headers : req.headers[i][1] = name})
\* url is server, "/", topic, "_", uuid, character by character.
IsConcat(url, server, topic, uuid) ==
    /\ Len(url) = Len(server) + Len(topic) + Len(uuid) + 2
    /\ \A i \in 1..Len(server) : url[i] = server[i]
    /\ url[Len(server) + 1] = "/"
    /\ \A i \in 1..Len(topic) : url[Len(server) + 1 + i] = topic[i]
    /\ url[Len(server) + Len(topic) + 2] = "_"
    /\ \A i \in 1..Len(uuid) : url[Len(server) + Len(topic) + 2 + i] = uuid[i]
\* The setter calls of log l made on field f, and the argument of the last one.
CallsOn(l, f) == {i \in DOMAIN l : l[i][1] = f}
LastArg(l, f) ==
    LET last == CHOOSE i \in CallsOn(l, f) : \A j \in CallsOn(l, f) : j <= i
    IN  l[last][2]

\* C1: the URL of every request ntfy() sends is the server, "/", the topic,
\* "_" and the uuid given to Client::new, character for character, and the
\* Client stores the three components as given.
UrlIsExactConcatenation ==
    \A c \in Calls : Sent(c) =>
        /\ clients[cli[c][1]][1].server = ArgsOf(c)[1]
        /\ clients[cli[c][1]][1].topic = ArgsOf(c)[2]
        /\ clients[cli[c][1]][1].uuid = ArgsOf(c)[3]
        /\ IsConcat(Req(c).url, ArgsOf(c)[1], ArgsOf(c)[2], ArgsOf(c)[3])

\* A request was sent for a Client whose server ends in "/", whose topic is
\* empty and whose uuid contains "_".
UrlWitness ==
    \E c \in Calls :
        /\ Sent(c)
        /\ ArgsOf(c) = << <<"/">>, <<>>, <<"_">> >>

BodyIsBuilderArgument ==
    \A c \in Calls : Sent(c) => Req(c).body = arg[c][1]

\* A request was sent for the empty message after title("a") and a second
\* setter call.
BodyWitness ==
    \E c \in Calls :
        /\ Sent(c)
        /\ arg[c] = Some(<<>>)
        /\ Len(log[c]) >= 2
        /\ msg[c][1].title = Some(<<"a">>)
        /\ Req(c).body = <<>>

\* C4: after any sequence of setter calls, a field whose setter was called
\* holds the argument of the last call of that setter, in the builder and in
\* the Message build() returns.
LastWriteWins ==
    \A c \in Calls :
        /\ builder[c] # None =>
              /\ CallsOn(log[c], "title") # {} =>
                    MessageBuilderBuild(builder[c][1]).title = Some(LastArg(log[c], "title"))
              /\ CallsOn(log[c], "tags") # {} =>
                    MessageBuilderBuild(builder[c][1]).tags = Some(LastArg(log[c], "tags"))
        /\ msg[c] # None =>
              /\ CallsOn(log[c], "title") # {} =>
                    msg[c][1].title = Some(LastArg(log[c], "title"))
              /\ CallsOn(log[c], "tags") # {} =>
                    msg[c][1].tags = Some(LastArg(log[c], "tags"))

\* A Message was built after title("") and then title("a").
LastWriteWitness ==
    \E c \in Calls :
        /\ msg[c] # None
        /\ log[c] = << <<"title", <<>>>>, <<"title", <<"a">>>> >>
        /\ msg[c][1].title = Some(<<"a">>)

\* C5: when the collaborator failed the request, ntfy() returned Err holding
\* the collaborator's error itself; and ntfy() returns Err in no other case.
TransportErrorPropagated ==
    \A c \in Calls : pc[c] = "done" =>
        /\ Out(c)[1] = "Err" =>
              /\ result[c][1] = "Err"
              /\ result[c][2].boxed = Out(c)[2]
        /\ result[c][1] = "Err" => Out(c)[1] = "Err"

\* A call returned after the collaborator failed its request with "tls".
TransportErrorWitness ==
    \E c \in Calls :
        /\ pc[c] = "done"
        /\ Out(c)[1] = "Err"
        /\ Out(c)[2].kind = "tls"

\* C6: when the collaborator delivered a response, ntfy() returned Ok with
\* that response, whatever its status.
ResponsePassedThrough ==
    \A c \in Calls : pc[c] = "done" =>
        (Out(c)[1] = "Ok" => result[c] = <<"Ok", Out(c)[2]>>)

\* A call returned after the collaborator delivered a 500 response.
ResponseWitness ==
    \E c \in Calls :
        /\ pc[c] = "done"
        /\ Out(c)[1] = "Ok"
        /\ Out(c)[2].status = 500

\* C7: a call that has not reached send() has sent nothing and returned
\* nothing; a call past send() has sent exactly one request, a POST, also
\* after a failure or a non-2xx response; and a returned call returned the
\* outcome of that request.
ExactlyOneRequest ==
    /\ Len(wire) = Cardinality({c \in Calls : Sent(c)})
    /\ \A h \in DOMAIN wire : Len(wire[h]) = 1
    /\ \A c \in Calls :
          /\ ~Sent(c) => fut[c] = <<>> /\ result[c] = <<>>
          /\ Sent(c) =>
                /\ fut[c] # <<>>
                /\ Len(wire[fut[c][1]]) = 1
                /\ Req(c).method = "POST"
          /\ pc[c] = "awaiting" => result[c] = <<>>
          /\ pc[c] = "done" =>
                /\ Len(outcome[fut[c][1]]) = 1
                /\ result[c][1] = Out(c)[1]

\* Two calls returned, one after a transport failure and one with a 500
\* response.
OneRequestWitness ==
    \E c, d \in Calls :
        /\ pc[c] = "done" /\ result[c][1] = "Err"
        /\ pc[d] = "done" /\ result[d][1] = "Ok" /\ result[d][2].status = 500
        /\ Len(wire) = 2

\* The request req is the one Client arguments a and Message m determine.
RequestMatches(req, a, m) ==
    /\ IsConcat(req.url, a[1], a[2], a[3])
    /\ req.headers[1] = <<"Title", IF m.title = None THEN <<>> ELSE m.title[1]>>
    /\ req.headers[2] = <<"Tags", IF m.tags = None THEN <<>> ELSE m.tags[1]>>
    /\ req.body = m.message

\* C8: under every interleaving the Clients stay as constructed, no two calls
\* hold the same transport client, each call's request is the one its own
\* Client and Message determine, and the Result a call returns is the
\* outcome of its own request.
CallsIndependent ==
    /\ clients = ConcClients
    /\ \A c, d \in Calls :
          (c # d /\ Sent(c) /\ Sent(d)) => fut[c][1] # fut[d][1]
    /\ \A c \in Calls : Sent(c) => RequestMatches(Req(c), ArgsOf(c), msg[c][1])
    /\ \A c \in Calls : pc[c] = "done" =>
          /\ result[c][1] = "Ok" => result[c][2].for = fut[c]
          /\ result[c][1] = "Err" => result[c][2].boxed.for = fut[c]

\* Two calls given the same Client and different Messages both returned:
\* the one that sent first with a transport error, the other with a response.
IndependentWitness ==
    \E c, d \in Calls :
        /\ c # d
        /\ pc[c] = "done" /\ pc[d] = "done"
        /\ cli[c] = cli[d]
        /\ msg[c] # msg[d]
        /\ fut[c][1] < fut[d][1]
        /\ result[c][1] = "Err" /\ result[d][1] = "Ok"

\* C9: when the Message has no title, the Title header of the request is
\* the text server/topic_uuid.
TitleDefaultsToUrl ==
    \A c \in Calls : (Sent(c) /\ msg[c][1].title = None) =>
        HeaderValues(Req(c), "Title") = {Req(c).url}

\* C10: a setter changes only its own field: the message stays the argument
\* of Message::builder, a field whose setter was never called is None, title
\* and tags leave the other two fields as they are, and setters of different
\* fields commute.
SettersChangeOwnFieldOnly ==
    \A c \in Calls :
        /\ builder[c] # None =>
              LET b == builder[c][1] IN
              /\ b.message = arg[c][1]
              /\ CallsOn(log[c], "title") = {} => b.title = None
              /\ CallsOn(log[c], "tags") = {} => b.tags = None
              /\ \A v \in Texts :
                    /\ MessageBuilderTitle(b, v).message = b.message
                    /\ MessageBuilderTitle(b, v).tags = b.tags
                    /\ MessageBuilderTags(b, v).message = b.message
                    /\ MessageBuilderTags(b, v).title = b.title
              /\ \A a, v \in Texts :
                    MessageBuilderBuild(MessageBuilderTags(MessageBuilderTitle(b, a), v))
                      = MessageBuilderBuild(MessageBuilderTitle(MessageBuilderTags(b, v), a))
        /\ msg[c] # None =>
              /\ msg[c][1].message = arg[c][1]
              /\ CallsOn(log[c], "title") = {} => msg[c][1].title = None
              /\ CallsOn(log[c], "tags") = {} => msg[c][1].tags = None

\* A Message was built after two tags calls and no title call: its title is
\* absent and its message is the builder's argument.
FrameWitness ==
    \E c \in Calls :
        /\ msg[c] # None
        /\ Len(log[c]) = 2
        /\ CallsOn(log[c], "title") = {}
        /\ msg[c][1].title = None
        /\ msg[c][1].tags # None

====
